---- MODULE Spec2Model ----
(***************************************************************************)
(* Model of thrussh-keys/src/format/openssh.rs: decode_openssh, the        *)
(* decoder of the "openssh-key-v1" private key container, and              *)
(* decrypt_secret_key, its KDF/cipher backend.                             *)
(*                                                                         *)
(* Buffers are sequences of bytes (0..255).  One decode call is a run of   *)
(* the state machine: CheckMagic, ReadEnvelope, Decrypt, ReadChecks,       *)
(* ReadKeys.  A Rust panic (slice index out of range, assert_eq!, unwrap   *)
(* on Err) is the outcome kind "Panic"; Result::Err is kind "Err".         *)
(***************************************************************************)
EXTENDS Integers, Sequences, FiniteSets, TLC

VARIABLES
    secret,      \* the buffer handed to decode_openssh
    password,    \* Option<&str>: [some, s]
    openssl,     \* cfg!(feature = "openssl")
    p256,        \* cfg!(feature = "p256")
    pc,          \* position of the call in decode_openssh
    position,    \* read position of the current Reader
    ciphername, kdfname, kdfoptions, nkeys, secret_,
    dec,         \* what decrypt_secret_key did and returned
    plain,       \* the decrypted private section (shadowed `secret`)
    check0, check1,
    rec,         \* what the key loop did on the records
    result       \* Result<KeyPair, Error> of the call, or a panic

vars == <<secret, password, openssl, p256, pc, position, ciphername, kdfname,
          kdfoptions, nkeys, secret_, dec, plain, check0, check1, rec, result>>

(***************************************************************************)
(* Bounds of the explored inputs.                                          *)
(***************************************************************************)
\* nkeys of the generated containers ranges over 0..MaxKeys
MaxKeys == 2
\* the ed25519 public key bytes are filled with a value of 1..MaxFill
MaxFill == 2

(***************************************************************************)
(* Byte strings of the source.                                             *)
(***************************************************************************)
\* b"openssh-key-v1\0"
MAGIC == <<111, 112, 101, 110, 115, 115, 104, 45, 107, 101, 121, 45, 118, 49, 0>>
\* b"none"
NONE == <<110, 111, 110, 101>>
\* b"bcrypt"
BCRYPT == <<98, 99, 114, 121, 112, 116>>
\* b"aes128-cbc"
AES128_CBC == <<97, 101, 115, 49, 50, 56, 45, 99, 98, 99>>
\* b"aes128-ctr"
AES128_CTR == <<97, 101, 115, 49, 50, 56, 45, 99, 116, 114>>
\* b"aes256-cbc"
AES256_CBC == <<97, 101, 115, 50, 53, 54, 45, 99, 98, 99>>
\* b"aes256-ctr"
AES256_CTR == <<97, 101, 115, 50, 53, 54, 45, 99, 116, 114>>
\* b"ssh-ed25519"
KEYTYPE_ED25519 == <<115, 115, 104, 45, 101, 100, 50, 53, 53, 49, 57>>
\* b"ssh-rsa"
KEYTYPE_RSA == <<115, 115, 104, 45, 114, 115, 97>>
\* b"ecdsa-sha2-nistp256"
KEYTYPE_P256 == <<101, 99, 100, 115, 97, 45, 115, 104, 97, 50, 45, 110, 105,
                  115, 116, 112, 50, 53, 54>>

(***************************************************************************)
(* Results.  Every result has the same fields so that results compare.     *)
(***************************************************************************)
NoKey == [alg |-> "", data |-> <<>>]
Ok(key) == [kind |-> "Ok", err |-> "", payload |-> <<>>, key |-> key]
Err(e) == [kind |-> "Err", err |-> e, payload |-> <<>>, key |-> NoKey]
\* Error::UnsupportedKeyType(key_type.to_vec())
UnsupportedKeyType(tag) ==
    [kind |-> "Err", err |-> "UnsupportedKeyType", payload |-> tag, key |-> NoKey]
Panic == [kind |-> "Panic", err |-> "", payload |-> <<>>, key |-> NoKey]
Pending == [kind |-> "Pending", err |-> "", payload |-> <<>>, key |-> NoKey]

None == [some |-> FALSE, s |-> <<>>]
Some(s) == [some |-> TRUE, s |-> s]

(***************************************************************************)
(* Helpers on byte sequences.                                              *)
(***************************************************************************)
\* s[from..], 0-based as in Rust; the caller checks from <= Len(s)
SliceFrom(s, from) == SubSeq(s, from + 1, Len(s))
\* s[from..to], 0-based, to exclusive
Slice(s, from, to) == SubSeq(s, from + 1, to)
Zeros(n) == [i \in 1..n |-> 0]
Fill(n, b) == [i \in 1..n |-> b]

RECURSIVE SumBytes(_)
SumBytes(s) == IF s = <<>> THEN 0 ELSE s[1] + SumBytes(Tail(s))

(***************************************************************************)
(* crate::encoding::Reader (the byte cursor).  A read returns              *)
(* [ok, val, pos]: pos is the position after the read; a failed read       *)
(* leaves the position where it was.                                       *)
(***************************************************************************)
\* BigEndian::read_u32 of 4 bytes
U32(b) == ((b[1] * 256 + b[2]) * 256 + b[3]) * 256 + b[4]
\* the big-endian encoding of a u32 below 2^31
PutU32(n) == << (n \div 16777216) % 256, (n \div 65536) % 256,
                (n \div 256) % 256, n % 256 >>
PutString(s) == PutU32(Len(s)) \o s

\* read_u32: 4 bytes, big-endian; raw keeps the bytes read
read_u32(s, pos) ==
    IF pos + 4 <= Len(s)
    THEN [ok |-> TRUE, raw |-> Slice(s, pos, pos + 4), pos |-> pos + 4]
    ELSE [ok |-> FALSE, raw |-> <<>>, pos |-> pos]

\* read_string: a u32 length, then that many bytes.  A length whose top
\* byte is not 0 is at least 2^24 and exceeds every buffer of the model, so
\* it fails without the length being computed.
read_string(s, pos) ==
    LET l == read_u32(s, pos) IN
    IF ~l.ok THEN [ok |-> FALSE, val |-> <<>>, pos |-> pos]
    ELSE IF l.raw[1] # 0 THEN [ok |-> FALSE, val |-> <<>>, pos |-> pos]
    ELSE LET len == U32(l.raw) IN
         IF l.pos + len <= Len(s)
         THEN [ok |-> TRUE, val |-> Slice(s, l.pos, l.pos + len), pos |-> l.pos + len]
         ELSE [ok |-> FALSE, val |-> <<>>, pos |-> pos]

\* read_mpint: a length-prefixed big-endian integer, a leading 0 byte dropped
read_mpint(s, pos) ==
    LET r == read_string(s, pos) IN
    IF r.ok /\ Len(r.val) > 0 /\ r.val[1] = 0
    THEN [ok |-> TRUE, val |-> Tail(r.val), pos |-> r.pos]
    ELSE r

(***************************************************************************)
(* The cryptographic primitives are external crates (bcrypt_pbkdf, aes,    *)
(* block_modes).  They are stood in for by small deterministic functions   *)
(* that keep what the decoder depends on: which arguments each primitive   *)
(* rejects, the lengths it accepts and returns, and that the output        *)
(* depends on password, salt, rounds, key and IV.                          *)
(***************************************************************************)
\* bcrypt_pbkdf::bcrypt_pbkdf(password, salt, rounds, &mut key[..n]):
\* Err on an empty password, an empty salt, rounds = 0 or a bad output length
bcrypt_pbkdf(pw, salt, rounds, outlen) ==
    IF pw = <<>> \/ salt = <<>> \/ rounds = 0 \/ outlen = 0 \/ outlen > 1024
    THEN [ok |-> FALSE, out |-> <<>>]
    ELSE [ok |-> TRUE,
          out |-> [i \in 1..outlen |->
                     ((SumBytes(pw) * 3 + SumBytes(salt) * 5 + rounds * 7 + i * 11) % 255) + 1]]

\* new_from_slices(key, iv): Err(InvalidLength) unless the key has the
\* cipher's key size and the IV is one block (16 bytes)
new_from_slices(keysize, key, iv) == Len(key) = keysize /\ Len(iv) = 16

KeyByte(key) == SumBytes(key) % 256

\* Cbc<_, NoPadding>::decrypt(&mut buf): Err(BlockModeError) unless the
\* buffer is a whole number of blocks; with NoPadding the whole buffer is
\* the plaintext
cbc_decrypt(key, iv, buf) ==
    IF Len(buf) % 16 # 0 THEN [ok |-> FALSE, out |-> <<>>]
    ELSE [ok |-> TRUE,
          out |-> [j \in 1..Len(buf) |->
                     (buf[j] + 512 - KeyByte(key)
                        - (IF j <= 16 THEN iv[j] ELSE buf[j - 16])) % 256]]

\* the inverse of cbc_decrypt, used to build encrypted containers
cbc_encrypt(key, iv, buf) ==
    LET c[j \in 1..Len(buf)] ==
            (buf[j] + KeyByte(key) + (IF j <= 16 THEN iv[j] ELSE c[j - 16])) % 256
    IN [j \in 1..Len(buf) |-> c[j]]

\* byte j (1-based) of the CTR keystream
keystream(key, iv, j) == (KeyByte(key) + iv[((j - 1) % 16) + 1] + ((j - 1) \div 16)) % 256

\* StreamCipher::apply_keystream(&mut buf): any length, same length out
apply_keystream(key, iv, buf) ==
    [j \in 1..Len(buf) |-> (buf[j] + 256 - keystream(key, iv, j)) % 256]

\* the inverse of apply_keystream, used to build encrypted containers
ctr_encrypt(key, iv, buf) ==
    [j \in 1..Len(buf) |-> (buf[j] + keystream(key, iv, j)) % 256]

(***************************************************************************)
(* decrypt_secret_key (lines 108-172).  Besides the Result (kind, err,     *)
(* data) the record keeps what the call handed to the primitives:          *)
(*   kdf     "none" (not called), "ok" or "failed"                         *)
(*   n       the number of bytes the KDF was asked to fill                 *)
(*   derived the bytes the KDF produced                                    *)
(*   split   whether line 139 was reached; key, iv: the two halves         *)
(***************************************************************************)
DecRes(kind, err, data, kdf, n, derived, split, key, iv) ==
    [kind |-> kind, err |-> err, data |-> data, kdf |-> kdf, n |-> n,
     derived |-> derived, split |-> split, key |-> key, iv |-> iv]
DecPlain(kind, err, data) == DecRes(kind, err, data, "none", 0, <<>>, FALSE, <<>>, <<>>)

\* lines 123-127
key_material_len(cipher) ==
    IF cipher = AES128_CBC \/ cipher = AES128_CTR THEN 32
    ELSE IF cipher = AES256_CBC \/ cipher = AES256_CTR THEN 48
    ELSE 0

\* line 139: let (key, iv) = key.split_at(n - 16), key being the whole
\* [u8; 48] buffer of line 122
split_key(keybuf, n) == [key |-> Slice(keybuf, 0, n - 16), iv |-> SliceFrom(keybuf, n - 16)]

\* lines 141-168, given the two halves of the key material
decipher(cipher, key, iv, secret_key) ==
    LET buf == secret_key \o Zeros(32) IN
    IF cipher = AES128_CBC \/ cipher = AES256_CBC
    THEN IF ~new_from_slices(IF cipher = AES128_CBC THEN 16 ELSE 32, key, iv)
         THEN [kind |-> "Panic", err |-> "", data |-> <<>>]
         ELSE LET d == cbc_decrypt(key, iv, buf) IN
              IF ~d.ok THEN [kind |-> "Err", err |-> "BlockMode", data |-> <<>>]
              ELSE [kind |-> "Ok", err |-> "", data |-> SubSeq(d.out, 1, Len(d.out))]
    ELSE IF cipher = AES128_CTR \/ cipher = AES256_CTR
    THEN IF ~new_from_slices(IF cipher = AES128_CTR THEN 16 ELSE 32, key, iv)
         THEN [kind |-> "Panic", err |-> "", data |-> <<>>]
         ELSE [kind |-> "Ok", err |-> "",
               data |-> SubSeq(apply_keystream(key, iv, buf), 1, Len(secret_key))]
    ELSE [kind |-> "Ok", err |-> "", data |-> buf]

\* lines 122-168: the branch taken with a password, kdfname not "none"
decrypt_with_password(cipher, kdf, kdfopts, pw, secret_key) ==
    LET n == key_material_len(cipher) IN
    IF n = 0 THEN DecPlain("Err", "CouldNotReadKey", <<>>)
    ELSE IF kdf # BCRYPT THEN DecPlain("Err", "CouldNotReadKey", <<>>)
    ELSE LET salt == read_string(kdfopts, 0)
             rounds == read_u32(kdfopts, salt.pos)
         IN
         IF ~salt.ok \/ ~rounds.ok THEN DecPlain("Err", "IndexOutOfBounds", <<>>)
         ELSE LET k == bcrypt_pbkdf(pw, salt.val, U32(rounds.raw), n) IN
              IF ~k.ok
              THEN DecRes("Panic", "", <<>>, "failed", n, <<>>, FALSE, <<>>, <<>>)
              ELSE LET keybuf == k.out \o Zeros(48 - n)
                       h == split_key(keybuf, n)
                       d == decipher(cipher, h.key, h.iv, secret_key)
                   IN DecRes(d.kind, d.err, d.data, "ok", n, k.out, TRUE, h.key, h.iv)

\* decrypt_secret_key with the cipher name looked up before the password
decrypt_secret_key_cipher_first(cipher, kdf, kdfopts, pw, secret_key) ==
    IF kdf = NONE
    THEN IF ~pw.some
         THEN DecPlain("Ok", "", secret_key)
         ELSE DecPlain("Err", "CouldNotReadKey", <<>>)
    ELSE IF key_material_len(cipher) = 0 THEN DecPlain("Err", "CouldNotReadKey", <<>>)
    ELSE IF pw.some
    THEN decrypt_with_password(cipher, kdf, kdfopts, pw.s, secret_key)
    ELSE DecPlain("Err", "KeyIsEncrypted", <<>>)

\* lines 108-172
decrypt_secret_key(cipher, kdf, kdfopts, pw, secret_key) ==
    IF kdf = NONE
    THEN IF ~pw.some
         THEN DecPlain("Ok", "", secret_key)
         ELSE DecPlain("Err", "CouldNotReadKey", <<>>)
    ELSE IF pw.some
    THEN decrypt_with_password(cipher, kdf, kdfopts, pw.s, secret_key)
    ELSE DecPlain("Err", "KeyIsEncrypted", <<>>)

(***************************************************************************)
(* The key loop of decode_openssh (lines 31-97) and the three assemblers.  *)
(* handle_record is one pass of the loop body; besides the outcome it      *)
(* keeps what the pass read:                                               *)
(*   returned  whether the body left the function (return or `?`)          *)
(*   asm       the branch taken: "" (tag not read), "ed25519", "rsa",      *)
(*             "p256" or "unsupported"                                     *)
(*   fields    whether all fields of the record were read                  *)
(*   pubkey, seckey  the ed25519 fields read                               *)
(*   check     "none", or the outcome "pass"/"fail" of RSA check_key       *)
(***************************************************************************)
HR(returned, res, pos, key_type, asm, fields, pubkey, seckey, check) ==
    [returned |-> returned, result |-> res, pos |-> pos, key_type |-> key_type,
     asm |-> asm, fields |-> fields, pubkey |-> pubkey, seckey |-> seckey,
     check |-> check]

\* assembler_for without the cfg!(feature = ...) tests
assembler_for_no_cfg(key_type, has_openssl, has_p256) ==
    IF key_type = KEYTYPE_ED25519 THEN "ed25519"
    ELSE IF key_type = KEYTYPE_RSA THEN "rsa"
    ELSE IF key_type = KEYTYPE_P256 THEN "p256"
    ELSE "unsupported"

\* the conditions of lines 33, 42, 73 and 93
assembler_for(key_type, has_openssl, has_p256) ==
    IF key_type = KEYTYPE_ED25519 THEN "ed25519"
    ELSE IF key_type = KEYTYPE_RSA /\ has_openssl THEN "rsa"
    ELSE IF key_type = KEYTYPE_P256 /\ has_p256 THEN "p256"
    ELSE "unsupported"

\* lines 34-41.  seckey[32..] panics when seckey has fewer than 32 bytes,
\* assert_eq! panics on a mismatch, and clone_from_slice into the 64-byte
\* key of SecretKey panics unless seckey has exactly 64 bytes.
ed25519_assemble(pubkey, seckey) ==
    IF Len(seckey) < 32 THEN Panic
    ELSE IF pubkey # SliceFrom(seckey, 32) THEN Panic
    ELSE IF Len(seckey) # 64 THEN Panic
    ELSE Ok([alg |-> "Ed25519", data |-> seckey])

ed25519_record(text, pos, key_type) ==
    LET pubkey == read_string(text, pos)
        seckey == read_string(text, pubkey.pos)
        comment == read_string(text, seckey.pos)
    IN
    IF ~pubkey.ok
    THEN HR(TRUE, Err("IndexOutOfBounds"), pubkey.pos, key_type, "ed25519", FALSE, <<>>, <<>>, "none")
    ELSE IF ~seckey.ok
    THEN HR(TRUE, Err("IndexOutOfBounds"), seckey.pos, key_type, "ed25519", FALSE, <<>>, <<>>, "none")
    ELSE IF ~comment.ok
    THEN HR(TRUE, Err("IndexOutOfBounds"), comment.pos, key_type, "ed25519", FALSE, <<>>, <<>>, "none")
    ELSE HR(TRUE, ed25519_assemble(pubkey.val, seckey.val), comment.pos, key_type,
            "ed25519", TRUE, pubkey.val, seckey.val, "none")

\* BigNum::from_slice: the big-endian magnitude
RECURSIVE BigNum_from_slice(_)
BigNum_from_slice(s) ==
    IF s = <<>> THEN 0 ELSE BigNum_from_slice(SubSeq(s, 1, Len(s) - 1)) * 256 + s[Len(s)]

Abs(x) == IF x < 0 THEN 0 - x ELSE x
RECURSIVE Gcd(_, _)
Gcd(a, b) == IF b = 0 THEN a ELSE Gcd(b, a % b)
IsPrime(x) == x >= 2 /\ \A k \in 2..(x - 1) : x % k # 0

\* RSA_check_key of the built key: e odd and not 1, p and q prime,
\* n = p*q, d*e = 1 mod lcm(p-1, q-1), and the CRT parameters
check_key(n, e, d, p, q, dmp1, dmq1, iqmp) ==
    /\ e # 1
    /\ e % 2 = 1
    /\ IsPrime(p)
    /\ IsPrime(q)
    /\ n = p * q
    /\ (d * e) % (((p - 1) * (q - 1)) \div Gcd(p - 1, q - 1)) = 1
    /\ dmp1 = d % (p - 1)
    /\ dmq1 = d % (q - 1)
    /\ iqmp < p
    /\ (iqmp * q) % p = 1

\* lines 52-71, given the six numbers read.  checked_rem by 0 is an
\* OpenSSL error, returned by `?`.  check_key() returns Err(ErrorStack)
\* for a key RSA_check_key rejects, and the unwrap() of line 67 panics.
rsa_assemble(n, e, d, iqmp, p, q) ==
    LET p1 == p - 1
        q1 == q - 1
    IN
    IF p1 = 0 \/ q1 = 0 THEN [result |-> Err("OpenSSL"), check |-> "none"]
    ELSE LET dmp1 == d % Abs(p1)
             dmq1 == d % Abs(q1)
             valid == check_key(n, e, d, p, q, dmp1, dmq1, iqmp)
         IN IF valid
            THEN [result |-> Ok([alg |-> "RSA", data |-> <<n, e, d, p, q, dmp1, dmq1, iqmp>>]),
                  check |-> "pass"]
            ELSE [result |-> Panic, check |-> "fail"]

\* lines 45-50: six strings, in the order n, e, d, iqmp, p, q
RECURSIVE read_strings(_, _, _)
read_strings(text, pos, count) ==
    IF count = 0 THEN [ok |-> TRUE, vals |-> <<>>, pos |-> pos]
    ELSE LET r == read_string(text, pos) IN
         IF ~r.ok THEN [ok |-> FALSE, vals |-> <<>>, pos |-> r.pos]
         ELSE LET rest == read_strings(text, r.pos, count - 1) IN
              [ok |-> rest.ok, vals |-> <<r.val>> \o rest.vals, pos |-> rest.pos]

rsa_record(text, pos, key_type) ==
    LET f == read_strings(text, pos, 6) IN
    IF ~f.ok
    THEN HR(TRUE, Err("IndexOutOfBounds"), f.pos, key_type, "rsa", FALSE, <<>>, <<>>, "none")
    ELSE LET a == rsa_assemble(BigNum_from_slice(f.vals[1]), BigNum_from_slice(f.vals[2]),
                               BigNum_from_slice(f.vals[3]), BigNum_from_slice(f.vals[4]),
                               BigNum_from_slice(f.vals[5]), BigNum_from_slice(f.vals[6]))
         IN HR(TRUE, a.result, f.pos, key_type, "rsa", TRUE, <<>>, <<>>, a.check)

\* lines 80-86: the scalar right-aligned in 32 bytes, bytes beyond 32 dropped
p256_key_bytes(sec_bytes) ==
    [k \in 1..32 |->
        IF Len(sec_bytes) - 32 + k >= 1 THEN sec_bytes[Len(sec_bytes) - 32 + k] ELSE 0]

\* key.public_key().to_sec1_bytes(): 0x04 and two 32-byte coordinates; a
\* stand-in for the curve's scalar multiplication
to_sec1_bytes(key_bytes) ==
    <<4>> \o key_bytes \o [k \in 1..32 |-> (key_bytes[k] * 3 + 1) % 256]

\* lines 80-91; p256::SecretKey::from_bytes rejects the zero scalar
p256_assemble(pub_bytes, sec_bytes) ==
    LET key_bytes == p256_key_bytes(sec_bytes) IN
    IF key_bytes = Zeros(32) THEN Err("P256")
    ELSE IF to_sec1_bytes(key_bytes) # pub_bytes THEN Err("CouldNotReadKey")
    ELSE Ok([alg |-> "P256", data |-> key_bytes])

p256_record(text, pos, key_type) ==
    LET curve == read_string(text, pos)
        pub_bytes == read_string(text, curve.pos)
        sec_bytes == read_mpint(text, pub_bytes.pos)
        comment == read_string(text, sec_bytes.pos)
    IN
    IF ~curve.ok
    THEN HR(TRUE, Err("IndexOutOfBounds"), curve.pos, key_type, "p256", FALSE, <<>>, <<>>, "none")
    ELSE IF ~pub_bytes.ok
    THEN HR(TRUE, Err("IndexOutOfBounds"), pub_bytes.pos, key_type, "p256", FALSE, <<>>, <<>>, "none")
    ELSE IF ~sec_bytes.ok
    THEN HR(TRUE, Err("IndexOutOfBounds"), sec_bytes.pos, key_type, "p256", FALSE, <<>>, <<>>, "none")
    ELSE IF ~comment.ok
    THEN HR(TRUE, Err("IndexOutOfBounds"), comment.pos, key_type, "p256", FALSE, <<>>, <<>>, "none")
    ELSE HR(TRUE, p256_assemble(pub_bytes.val, sec_bytes.val), comment.pos, key_type,
            "p256", TRUE, <<>>, <<>>, "none")

\* handle_record whose last branch does not return: the loop goes on to
\* the next record
handle_record_continue(text, pos, has_openssl, has_p256) ==
    LET key_type == read_string(text, pos) IN
    IF ~key_type.ok
    THEN HR(TRUE, Err("IndexOutOfBounds"), key_type.pos, <<>>, "", FALSE, <<>>, <<>>, "none")
    ELSE LET asm == assembler_for(key_type.val, has_openssl, has_p256) IN
         IF asm = "ed25519" THEN ed25519_record(text, key_type.pos, key_type.val)
         ELSE IF asm = "rsa" THEN rsa_record(text, key_type.pos, key_type.val)
         ELSE IF asm = "p256" THEN p256_record(text, key_type.pos, key_type.val)
         ELSE HR(FALSE, UnsupportedKeyType(key_type.val), key_type.pos, key_type.val,
                 "unsupported", TRUE, <<>>, <<>>, "none")

\* lines 32-95: one pass of the loop body
handle_record(text, pos, has_openssl, has_p256) ==
    LET key_type == read_string(text, pos) IN
    IF ~key_type.ok
    THEN HR(TRUE, Err("IndexOutOfBounds"), key_type.pos, <<>>, "", FALSE, <<>>, <<>>, "none")
    ELSE LET asm == assembler_for(key_type.val, has_openssl, has_p256) IN
         IF asm = "ed25519" THEN ed25519_record(text, key_type.pos, key_type.val)
         ELSE IF asm = "rsa" THEN rsa_record(text, key_type.pos, key_type.val)
         ELSE IF asm = "p256" THEN p256_record(text, key_type.pos, key_type.val)
         ELSE HR(TRUE, UnsupportedKeyType(key_type.val), key_type.pos, key_type.val,
                 "unsupported", TRUE, <<>>, <<>>, "none")

\* lines 31-97: for _ in 0..nkeys { body }, then Err(CouldNotReadKey).
\* iters counts the passes made.
RECURSIVE key_loop(_, _, _, _, _, _)
key_loop(text, pos, i, n, has_openssl, has_p256) ==
    IF i >= n
    THEN [h |-> HR(FALSE, Err("CouldNotReadKey"), pos, <<>>, "", FALSE, <<>>, <<>>, "none"),
          iters |-> i]
    ELSE LET h == handle_record(text, pos, has_openssl, has_p256) IN
         IF h.returned THEN [h |-> h, iters |-> i + 1]
         ELSE key_loop(text, h.pos, i + 1, n, has_openssl, has_p256)

(***************************************************************************)
(* The steps of decode_openssh before the key loop.                        *)
(***************************************************************************)
\* line 11: &secret[0..15] == b"openssh-key-v1\0"; the slice panics when
\* the buffer has fewer than 15 bytes
magic_check(buf) ==
    IF Len(buf) < 15 THEN "panic"
    ELSE IF Slice(buf, 0, 15) = MAGIC THEN "ok"
    ELSE "bad"

\* lines 21-23: skip count public key blobs
RECURSIVE skip_strings(_, _, _)
skip_strings(buf, pos, count) ==
    IF count = 0 THEN [ok |-> TRUE, pos |-> pos]
    ELSE LET r == read_string(buf, pos) IN
         IF ~r.ok THEN [ok |-> FALSE, pos |-> r.pos]
         ELSE skip_strings(buf, r.pos, count - 1)

\* lines 12-26: the envelope
read_envelope(buf) ==
    LET c == read_string(buf, 15)
        k == read_string(buf, c.pos)
        o == read_string(buf, k.pos)
        n == read_u32(buf, o.pos)
        bad == [ok |-> FALSE, ciphername |-> <<>>, kdfname |-> <<>>, kdfoptions |-> <<>>,
                nkeys |-> 0, secret_ |-> <<>>, pos |-> 0]
    IN
    IF ~c.ok \/ ~k.ok \/ ~o.ok \/ ~n.ok THEN bad
    ELSE LET pubs == skip_strings(buf, n.pos, U32(n.raw)) IN
         IF ~pubs.ok THEN bad
         ELSE LET s == read_string(buf, pubs.pos) IN
              IF ~s.ok THEN bad
              ELSE [ok |-> TRUE, ciphername |-> c.val, kdfname |-> k.val,
                    kdfoptions |-> o.val, nkeys |-> U32(n.raw), secret_ |-> s.val,
                    pos |-> s.pos]

\* lines 28-30: the two check values, kept as the 4 bytes read
read_checks(buf) ==
    LET c0 == read_u32(buf, 0)
        c1 == read_u32(buf, c0.pos)
    IN [ok |-> c0.ok /\ c1.ok, check0 |-> c0.raw, check1 |-> c1.raw, pos |-> c1.pos]

(***************************************************************************)
(* The containers the calls are made on.                                   *)
(***************************************************************************)
\* "pw", "bad"
PW == <<112, 119>>
BAD == <<98, 97, 100>>
\* key type, cipher and KDF names the decoder does not know
SSH_DSS == <<115, 115, 104, 45, 100, 115, 115>>
DES3_CBC == <<51, 100, 101, 115, 45, 99, 98, 99>>
SCRYPT == <<115, 99, 114, 121, 112, 116>>
NISTP256 == <<110, 105, 115, 116, 112, 50, 53, 54>>
SALT == <<1, 2, 3, 4>>

RECURSIVE Repeat(_, _)
Repeat(s, k) == IF k <= 0 THEN <<>> ELSE s \o Repeat(s, k - 1)

\* padding bytes 1, 2, 3, ... up to a multiple of bs
Pad(s, bs) == s \o [i \in 1..((bs - (Len(s) % bs)) % bs) |-> i]

Container(cipher, kdf, kdfopts, n, priv) ==
    MAGIC \o PutString(cipher) \o PutString(kdf) \o PutString(kdfopts)
          \o PutU32(n) \o Repeat(PutString(<<>>), n) \o PutString(priv)

EdRecord(pubkey, seckey) ==
    PutString(KEYTYPE_ED25519) \o PutString(pubkey) \o PutString(seckey) \o PutString(<<>>)
EdGood(b) == EdRecord(Fill(32, b), Zeros(32) \o Fill(32, b))
RsaRecord(n, e, d, iqmp, p, q) ==
    PutString(KEYTYPE_RSA) \o PutString(<<n>>) \o PutString(<<e>>) \o PutString(<<d>>)
        \o PutString(<<iqmp>>) \o PutString(<<p>>) \o PutString(<<q>>) \o PutString(<<>>)
P256Record(pub_bytes, scalar) ==
    PutString(KEYTYPE_P256) \o PutString(NISTP256) \o PutString(pub_bytes)
        \o PutString(scalar) \o PutString(<<>>)
DssRecord == PutString(SSH_DSS) \o PutString(<<7, 7>>)

EdRecords ==
    { EdRecord(Fill(32, a), Zeros(32) \o Fill(32, b)) : a \in 1..MaxFill, b \in 1..MaxFill }
    \cup { EdRecord(Fill(32, 1), Fill(16, 1)),
           EdRecord(Fill(16, 1), Zeros(32) \o Fill(16, 1)),
           EdRecord(Fill(48, 1), Zeros(32) \o Fill(48, 1)) }
RsaRecords ==
    { RsaRecord(15, 3, 3, 2, 3, 5), RsaRecord(16, 3, 3, 2, 3, 5),
      RsaRecord(15, 3, 3, 2, 1, 5), RsaRecord(15, 1, 1, 2, 3, 5),
      RsaRecord(9, 3, 3, 2, 3, 3) }
P256Records ==
    { P256Record(to_sec1_bytes(Fill(32, 9)), Fill(32, 9)),
      P256Record(to_sec1_bytes(Fill(32, 9)), <<0>> \o Fill(32, 9)),
      P256Record(to_sec1_bytes(Fill(32, 8)), Fill(32, 9)),
      P256Record(to_sec1_bytes(Zeros(32)), Zeros(32)) }
FirstRecords == EdRecords \cup RsaRecords \cup P256Records \cup {DssRecord}
LaterRecords == {EdGood(1), DssRecord}

CheckPairs == { <<42, 42>>, <<42, 43>> }
Checks(c) == PutU32(c[1] * 16843009) \o PutU32(c[2] * 16843009)

\* private sections: the checks, nkeys records, padding
PrivateSections(n) ==
    IF n = 0 THEN { Pad(Checks(c), 8) : c \in CheckPairs }
    ELSE { Pad(Checks(c) \o first \o Repeat(later, n - 1), 8) :
             c \in CheckPairs, first \in FirstRecords, later \in LaterRecords }

PlainContainers ==
    UNION { { Container(NONE, NONE, <<>>, n, priv) : priv \in PrivateSections(n) } :
            n \in 0..MaxKeys }

\* how a writer encrypts for PW: key = derived[0, n-16), iv = derived[n-16, n)
EncryptFor(cipher, salt, rounds, pt) ==
    LET n == key_material_len(cipher)
        k == bcrypt_pbkdf(PW, salt, rounds, n)
    IN
    IF n = 0 \/ ~k.ok THEN pt
    ELSE IF cipher = AES128_CBC \/ cipher = AES256_CBC
         THEN cbc_encrypt(Slice(k.out, 0, n - 16), Slice(k.out, n - 16, n), pt)
         ELSE ctr_encrypt(Slice(k.out, 0, n - 16), Slice(k.out, n - 16, n), pt)

Ciphers == {AES128_CBC, AES128_CTR, AES256_CBC, AES256_CTR, DES3_CBC}
KdfOptions(salt, rounds) == PutString(salt) \o PutU32(rounds)
SecretText == Pad(Checks(<<42, 42>>) \o EdGood(1), 16)

EncryptedContainers ==
    { Container(cipher, kdf, KdfOptions(salt, rounds), 1,
                EncryptFor(cipher, salt, rounds, SecretText)) :
        cipher \in Ciphers, kdf \in {BCRYPT, SCRYPT}, salt \in {<<>>, SALT},
        rounds \in {0, 16} }
    \cup { Container(cipher, BCRYPT, KdfOptions(SALT, 16), 1,
                     SubSeq(EncryptFor(cipher, SALT, 16, SecretText), 1, Len(SecretText) - 3)) :
             cipher \in Ciphers }
    \cup { Container(AES256_CTR, BCRYPT, PutString(SALT), 1, SecretText),
           Container(NONE, BCRYPT, KdfOptions(SALT, 16), 0, SecretText) }

GoodContainer == Container(NONE, NONE, <<>>, 1, Pad(Checks(<<42, 42>>) \o EdGood(1), 8))
TruncLens == 0..16 \cup {19, 23, 30, 31, 35, 39, 43, 47, 50, 58, 62, 77, 100, 150}
BrokenContainers ==
    { SubSeq(GoodContainer, 1, k) : k \in TruncLens }
    \cup { <<0>> \o Tail(GoodContainer), Fill(14, 111), Fill(15, 111) }

Inputs == PlainContainers \cup EncryptedContainers \cup BrokenContainers
Passwords == { None, Some(PW), Some(BAD), Some(<<>>) }

(***************************************************************************)
(* The state machine of one call.                                          *)
(***************************************************************************)
NoDec == DecPlain("Pending", "", <<>>)
NoRec == [h |-> HR(FALSE, Pending, 0, <<>>, "", FALSE, <<>>, <<>>, "none"), iters |-> 0]

Init ==
    /\ secret \in Inputs
    /\ password \in Passwords
    /\ openssl \in BOOLEAN
    /\ p256 \in BOOLEAN
    /\ pc = "start"
    /\ position = 0
    /\ ciphername = <<>> /\ kdfname = <<>> /\ kdfoptions = <<>>
    /\ nkeys = 0 /\ secret_ = <<>>
    /\ dec = NoDec
    /\ plain = <<>>
    /\ check0 = <<>> /\ check1 = <<>>
    /\ rec = NoRec
    /\ result = Pending

\* line 11
CheckMagic ==
    /\ pc = "start"
    /\ LET m == magic_check(secret) IN
       /\ pc' = IF m = "ok" THEN "envelope" ELSE "done"
       /\ position' = IF m = "ok" THEN 15 ELSE position
       /\ result' = IF m = "ok" THEN result
                    ELSE IF m = "panic" THEN Panic ELSE Err("CouldNotReadKey")
    /\ UNCHANGED <<secret, password, openssl, p256, ciphername, kdfname, kdfoptions,
                   nkeys, secret_, dec, plain, check0, check1, rec>>

\* lines 12-26
ReadEnvelope ==
    /\ pc = "envelope"
    /\ LET e == read_envelope(secret) IN
       /\ pc' = IF e.ok THEN "decrypt" ELSE "done"
       /\ result' = IF e.ok THEN result ELSE Err("IndexOutOfBounds")
       /\ position' = IF e.ok THEN e.pos ELSE position
       /\ ciphername' = e.ciphername
       /\ kdfname' = e.kdfname
       /\ kdfoptions' = e.kdfoptions
       /\ nkeys' = e.nkeys
       /\ secret_' = e.secret_
    /\ UNCHANGED <<secret, password, openssl, p256, dec, plain, check0, check1, rec>>

\* line 27
Decrypt ==
    /\ pc = "decrypt"
    /\ LET d == decrypt_secret_key(ciphername, kdfname, kdfoptions, password, secret_) IN
       /\ dec' = d
       /\ pc' = IF d.kind = "Ok" THEN "checks" ELSE "done"
       /\ plain' = IF d.kind = "Ok" THEN d.data ELSE plain
       /\ position' = IF d.kind = "Ok" THEN 0 ELSE position
       /\ result' = IF d.kind = "Ok" THEN result
                    ELSE IF d.kind = "Panic" THEN Panic ELSE Err(d.err)
    /\ UNCHANGED <<secret, password, openssl, p256, ciphername, kdfname, kdfoptions,
                   nkeys, secret_, check0, check1, rec>>

\* lines 28-30
ReadChecks ==
    /\ pc = "checks"
    /\ LET c == read_checks(plain) IN
       /\ pc' = IF c.ok THEN "keys" ELSE "done"
       /\ result' = IF c.ok THEN result ELSE Err("IndexOutOfBounds")
       /\ position' = c.pos
       /\ check0' = c.check0
       /\ check1' = c.check1
    /\ UNCHANGED <<secret, password, openssl, p256, ciphername, kdfname, kdfoptions,
                   nkeys, secret_, dec, plain, rec>>

\* lines 31-97
ReadKeys ==
    /\ pc = "keys"
    /\ LET r == key_loop(plain, position, 0, nkeys, openssl, p256) IN
       /\ rec' = r
       /\ result' = r.h.result
       /\ position' = r.h.pos
    /\ pc' = "done"
    /\ UNCHANGED <<secret, password, openssl, p256, ciphername, kdfname, kdfoptions,
                   nkeys, secret_, dec, plain, check0, check1>>

Next == CheckMagic \/ ReadEnvelope \/ Decrypt \/ ReadChecks \/ ReadKeys

Spec == Init /\ [][Next]_vars

\* the call has returned or panicked
Done == pc = "done"

(***************************************************************************)
(* The claims.                                                             *)
(***************************************************************************)
\* the private section was decrypted and both check values were read
ChecksRead == Len(check0) = 4 /\ Len(check1) = 4
\* the type tag of the first key record, as it stands in the plaintext
FirstTag == read_string(plain, 8)

\* C1: every buffer shorter than 15 bytes makes decode_openssh return
\* Err(CouldNotReadKey); it never panics on the magic check.
C1_ShortBufferIsError ==
    (Done /\ Len(secret) < 15) => result = Err("CouldNotReadKey")

\* C2: a call whose decrypted private section has check0 # check1 never
\* returns a KeyPair.
C2_CheckMismatchFails ==
    (Done /\ ChecksRead /\ check0 # check1) => result.kind # "Ok"

\* C3: the password/KDF gate.  kdfname "none" with a password fails, and
\* without one the private section is the plaintext, unchanged; kdfname
\* "bcrypt" without a password fails with KeyIsEncrypted whatever the
\* ciphername and kdfoptions are.
C3_PasswordGate ==
    (dec.kind # "Pending") =>
        /\ (kdfname = NONE /\ password.some) =>
               (Done /\ result = Err("CouldNotReadKey"))
        /\ (kdfname = NONE /\ ~password.some) =>
               (dec.kind = "Ok" /\ dec.data = secret_ /\ plain = secret_)
        /\ (kdfname = BCRYPT /\ ~password.some) =>
               (Done /\ result = Err("KeyIsEncrypted"))

\* a bcrypt container with an unknown cipher and a rounds count of 0,
\* decoded without a password, failed with KeyIsEncrypted
C3_Witness ==
    /\ Done /\ kdfname = BCRYPT /\ ~password.some
    /\ ciphername = DES3_CBC
    /\ kdfoptions = KdfOptions(SALT, 0)
    /\ result = Err("KeyIsEncrypted")

\* C4: when the first record's type tag has no assembler in this build
\* (an unknown tag, or ssh-rsa / ecdsa-sha2-nistp256 without the feature),
\* the call fails with UnsupportedKeyType carrying exactly the tag bytes.
C4_UnsupportedTag ==
    (Done /\ ChecksRead /\ nkeys >= 1 /\ FirstTag.ok
          /\ FirstTag.val # KEYTYPE_ED25519
          /\ ~(FirstTag.val = KEYTYPE_RSA /\ openssl)
          /\ ~(FirstTag.val = KEYTYPE_P256 /\ p256))
      => result = UnsupportedKeyType(FirstTag.val)

\* an ssh-rsa record decoded by a build without the openssl feature
C4_Witness ==
    /\ Done /\ ChecksRead /\ nkeys >= 1 /\ FirstTag.ok
    /\ FirstTag.val = KEYTYPE_RSA /\ ~openssl
    /\ result = UnsupportedKeyType(KEYTYPE_RSA)

\* C5: for a record tagged ssh-ed25519 whose fields were read, the call
\* returns the Ed25519 key when the secret has 64 bytes and its last 32
\* equal the public key, and an error value for every other pair.
C5_Ed25519Consistency ==
    (Done /\ rec.h.asm = "ed25519" /\ rec.h.fields) =>
        IF Len(rec.h.seckey) = 64 /\ SliceFrom(rec.h.seckey, 32) = rec.h.pubkey
        THEN result = Ok([alg |-> "Ed25519", data |-> rec.h.seckey])
        ELSE result.kind = "Err"

\* what may follow the bytes the key loop consumed
Tails == { <<>>, <<255, 255>>, DssRecord, EdGood(2), DssRecord \o EdGood(1) }

\* C6: first-key-only.  With nkeys = 0 the key loop yields
\* Err(CouldNotReadKey) and no call returns a key; with nkeys >= 1 the loop
\* body runs once, and unless the first record itself ran off the end of
\* the plaintext the result is the same whatever follows the bytes consumed.
C6_FirstKeyOnly ==
    /\ (Done /\ nkeys = 0) => result.kind # "Ok"
    /\ (Done /\ ChecksRead /\ nkeys = 0) => result = Err("CouldNotReadKey")
    /\ (Done /\ ChecksRead /\ nkeys >= 1) =>
           /\ rec.iters = 1
           /\ position <= Len(plain)
           /\ (result.err # "IndexOutOfBounds") =>
                  \A tail \in Tails :
                      key_loop(Slice(plain, 0, position) \o tail, 8, 0, nkeys,
                               openssl, p256).h.result = result

\* two keys declared, a key returned from the first record, and the bytes
\* of the second record left unread
C6_Witness ==
    /\ Done /\ ChecksRead /\ nkeys = 2
    /\ result.kind = "Ok"
    /\ rec.iters = 1
    /\ Len(plain) - position >= Len(DssRecord)

\* a primitive of decrypt_secret_key failed: the KDF rejected its
\* arguments, a cipher constructor rejected the key or IV length, or the
\* CBC decryption rejected the buffer length
PrimitiveFailed ==
    \/ dec.kdf = "failed"
    \/ /\ dec.split
       /\ \/ Len(dec.iv) # 16
          \/ Len(dec.key) # dec.n - 16
          \/ /\ ciphername \in {AES128_CBC, AES256_CBC}
             /\ (Len(secret_) + 32) % 16 # 0

\* C7: every primitive failure inside decrypt_secret_key comes back as an
\* error value, never as a panic and never with a plaintext.
C7_PrimitiveFailureIsError ==
    PrimitiveFailed => dec.kind = "Err"

\* C8: the KDF fills n bytes (32 for the 128-bit ciphers, 48 for the
\* 256-bit ones), the cipher key is bytes [0, n-16) of them and the IV is
\* the 16 bytes [n-16, n).
C8_KeyIvSplit ==
    dec.split =>
        /\ dec.n = (IF ciphername \in {AES128_CBC, AES128_CTR} THEN 32 ELSE 48)
        /\ Len(dec.derived) = dec.n
        /\ dec.key = Slice(dec.derived, 0, dec.n - 16)
        /\ Len(dec.iv) = 16
        /\ dec.iv = Slice(dec.derived, dec.n - 16, dec.n)

\* C9: when check_key fails on the assembled RSA key the decode returns an
\* error value; an RSA KeyPair is returned only for a key that passed.
C9_RsaCheckFails ==
    /\ (Done /\ rec.h.asm = "rsa" /\ rec.h.check = "fail") => result.kind = "Err"
    /\ (Done /\ result.kind = "Ok" /\ result.key.alg = "RSA") => rec.h.check = "pass"

\* C10: whenever decrypt_secret_key succeeds, the plaintext has exactly the
\* length of the private section it was given.
C10_LengthPreserved ==
    dec.kind = "Ok" => Len(dec.data) = Len(secret_)

====
